---- MODULE Spec2Model ----
(***************************************************************************)
(* A model of four parts of KHARMA:                                        *)
(*   - HARMDriver::MakeTaskList (src/kharma/harm.cpp) and the execution of *)
(*     the task list it builds (specifications SpecDriver, SpecDriverLive);*)
(*   - the B_CD package's kernels (src/kharma/b_cd/b_cd.cpp): AddSource    *)
(*     (specification SpecSource), UtoP, MaxDivB and FillOutput            *)
(*     (specification SpecKernels);                                        *)
(*   - B_CD::PostStepDiagnostics run by several MPI ranks (specifications  *)
(*     SpecDiag, SpecDiagLive);                                            *)
(*   - InitializeRest (src/kharma/prob/rest_conserve.cpp) (specification   *)
(*     SpecRest).                                                          *)
(* The specifications share the module's variables; each keeps the         *)
(* variables of the other parts at their idle values.                      *)
(***************************************************************************)
EXTENDS Integers, Sequences, FiniteSets, TLC

VARIABLES
    \* ---- task-graph driver (harm.cpp) ----
    nstages,          \* integrator->nstages
    adaptive,         \* pmesh->adaptive
    cycle,            \* timestep being advanced (1, 2, ...)
    stage,            \* stage whose task list was built last (0: none yet)
    phase,            \* "build" | "exec" | "failed" | "threw" | "finished"
    real_containers,  \* pmb->real_containers: the names of the snapshots held
    addCalls,         \* per name: <<stage>> of each Add call of this timestep
    missing,          \* names looked up by Get while absent
    tl,               \* the TaskList of the current stage
    status,           \* per task id: "absent" | "pending" | "running" | "complete" | "failed"
    order             \* ids of the completed tasks of this stage, in completion order

VARIABLES
    \* ---- B_CD kernels (b_cd.cpp) ----
    mesh,             \* the mesh: ndim, block sizes, number of blocks, geometry, damping
    inp,              \* the profiles the fields were filled from before the call
    md,               \* the state snapshot, per block
    mdudt,            \* the rate-of-change snapshot, per block
    pcS,              \* "ready" | "done"
    ret,              \* the TaskStatus returned ("none" before the call)
    kcall,            \* the call made of UtoP, MaxDivB or FillOutput, with its arguments
    kret              \* what that call returned and the flux entries it read

VARIABLES
    \* ---- B_CD::PostStepDiagnostics on every rank (b_cd.cpp 228-248) ----
    verbose,          \* the "verbose" parameter of the B_CD package
    pcP,              \* per rank: "idle" | "poll" | "done"
    tstep,            \* per rank: the timestep whose diagnostics it is at
    val,              \* per rank: max_divb.val
    active,           \* per rank: max_divb.active, a reduction is in flight
    sent,             \* per rank: the values it has handed to its reductions, in order
    locals,           \* per rank: the values MaxDivB returned, in order
    reports           \* the lines printed, in order: [rank, step, value]

VARIABLES
    \* ---- InitializeRest (prob/rest_conserve.cpp) ----
    pin,              \* the ParameterInput: "block/name" -> value, for the names present
    g_params,         \* the parameter table of the GRMHD package: key -> value
    electrons,        \* the Electrons package is loaded
    prims,            \* per block: the values SetRest wrote to the primitive fields
    runs,             \* the blocks InitializeRest has run on, in order
    quotients         \* the divisions made for tlim: [num, q]

driverVars == <<nstages, adaptive, cycle, stage, phase, real_containers,
                addCalls, missing, tl, status, order>>

sourceVars == <<mesh, inp, md, mdudt, pcS, ret, kcall, kret>>

diagVars == <<verbose, pcP, tstep, val, active, sent, locals, reports>>

restVars == <<pin, g_params, electrons, prims, runs, quotients>>

vars == <<driverVars, sourceVars, diagVars, restVars>>

\* ------------------------------------------------------------------------
\* Bounds of the model
\* ------------------------------------------------------------------------
MaxStages == 3
MaxCycles == 2
MaxBlocks == 2
NGhost == 1
\* Interior cells per block: 2..MaxNx1 along axis 1, NxOther along an active
\* axis 2 or 3.
MaxNx1 == 4
NxOther == 2
\* Ranks, and timesteps of diagnostics.
NProcs == 2
MaxDiagSteps == 2
\* Calls of InitializeRest in a run of the program.
MaxRestRuns == 2

\* ------------------------------------------------------------------------
\* Helpers
\* ------------------------------------------------------------------------
Range(s) == {s[n] : n \in DOMAIN s}

\* ------------------------------------------------------------------------
\* Real numbers: exact fractions <<numerator, denominator>> in lowest terms
\* with a positive denominator
\* ------------------------------------------------------------------------
Abs(n) == IF n < 0 THEN -n ELSE n

RECURSIVE GCD(_, _)
GCD(a, b) == IF b = 0 THEN a ELSE GCD(b, a % b)

Norm(n, d) ==
    LET sgn == IF d < 0 THEN -1 ELSE 1
        g   == GCD(Abs(n), Abs(d))
    IN <<(sgn * n) \div g, (sgn * d) \div g>>

R(n) == <<n, 1>>
Frac(n, d) == Norm(n, d)
Plus(a, b) == Norm(a[1] * b[2] + b[1] * a[2], a[2] * b[2])
Minus(a, b) == Norm(a[1] * b[2] - b[1] * a[2], a[2] * b[2])
Times(a, b) == Norm(a[1] * b[1], a[2] * b[2])
Over(a, b) == Norm(a[1] * b[2], a[2] * b[1])
Neg(a) == <<-a[1], a[2]>>
Less(a, b) == a[1] * b[2] < b[1] * a[2]

\* Kokkos::sqrt, on the fractions whose numerator and denominator are squares.
ISqrt(n) == CHOOSE r \in 0..n : r * r = n
Sqrt(a) == <<ISqrt(a[1]), ISqrt(a[2])>>

\* ------------------------------------------------------------------------
\* The mesh: index ranges
\* ------------------------------------------------------------------------

\* VLOOP: the components of a vector field; V1, V2, V3.
VLOOP == 0..2
V1 == 0
V2 == 1
V3 == 2

\* An axis beyond ndim has one cell and no ghost cells.
AxisActive(m, a) == a <= m.ndim

\* GetBoundsI/J/K(IndexDomain::interior): first and last interior index.
IntS(m, a) == IF AxisActive(m, a) THEN NGhost ELSE 0
IntE(m, a) == IntS(m, a) + m.nx[a] - 1

\* All indices of an axis, ghost cells included.
AllIdx(m, a) == IF AxisActive(m, a) THEN 0..(m.nx[a] + 2 * NGhost - 1) ELSE {0}

Cells(m) == AllIdx(m, 3) \X AllIdx(m, 2) \X AllIdx(m, 1)

\* The blocks of a MeshData pack: IndexRange{0, GetDim(5)-1}.
Blocks(m) == 0..(m.nblocks - 1)

\* A read of an array: outside the array it yields whatever is there, one of
\* the values of Junk.
Junk == {R(1), R(7)}
At(f, idx, junk) == IF idx \in DOMAIN f THEN f[idx] ELSE junk

\* ------------------------------------------------------------------------
\* The geometry of a block (G = GetCoords(b)), of one of three kinds
\* ------------------------------------------------------------------------
GeomKinds == {"flat", "shift", "lapse"}

\* The lapse of the "lapse" geometry at a location.
LapseAt(loc, j, i) ==
    CASE loc = "center" -> i + j + 1
      [] loc = "face1"  -> i + j
      [] loc = "face2"  -> i + 2 * j

\* G.gcon(loc, j, i, mu, nu)
gcon(m, loc, j, i, mu, nu) ==
    CASE m.gkind = "flat" ->
            IF mu # nu THEN R(0) ELSE IF mu = 0 THEN R(-1) ELSE R(1)
      [] m.gkind = "shift" ->
            IF mu = 0 /\ nu = 0 THEN Frac(-1, 4)
            ELSE IF mu = 0 \/ nu = 0 THEN R(1)
            ELSE IF mu = nu THEN R(2) ELSE Frac(1, 2)
      [] m.gkind = "lapse" ->
            IF mu # nu THEN R(0)
            ELSE IF mu = 0 THEN Frac(-1, LapseAt(loc, j, i) * LapseAt(loc, j, i))
            ELSE R(1)

\* G.gdet(loc, j, i)
gdet(m, loc, j, i) ==
    CASE m.gkind = "flat"  -> R(1)
      [] m.gkind = "shift" -> R(2)
      [] m.gkind = "lapse" -> R(1)

\* The spacing arrays dx1v, dx2v, dx3v, one entry per index of their axis.
DxArray(m, a) ==
    [idx \in AllIdx(m, a) |->
        CASE m.gkind = "flat"  -> R(1)
          [] m.gkind = "shift" -> IF a = 1 THEN Frac(1, 2)
                                  ELSE IF a = 2 THEN R(idx + 1) ELSE R(1)
          [] m.gkind = "lapse" -> IF a = 2 THEN R(idx + 1) ELSE R(1)]

dx1v(m, idx, junk) == At(DxArray(m, 1), idx, junk)
dx2v(m, idx, junk) == At(DxArray(m, 2), idx, junk)
dx3v(m, idx, junk) == At(DxArray(m, 3), idx, junk)

\* ------------------------------------------------------------------------
\* Snapshots: the fields B_CD registers (b_cd.cpp 67-87), per block
\* ------------------------------------------------------------------------
FluxBProfiles == {"zero", "lin", "bump", "ax1"}

\* The step of the "ax1" flux from one face of axis 1 to the next.
AxisOneSlope == 2
FluxPsiProfiles == {"zero", "lin"}
ConsProfiles == {"zero", "var"}
PriorProfiles == {"zero", "var"}

\* Flux of cons.B, component V<dir>, through the faces of direction dir.
FluxBVal(prof, b, dir, k, j, i) ==
    CASE prof = "zero" -> R(0)
      [] prof = "lin"  -> IF dir = 1 THEN R(2 * i) ELSE IF dir = 2 THEN R(3 * j) ELSE R(k)
      [] prof = "bump" -> IF dir = 1 THEN R(i * i + b)
                          ELSE IF dir = 2 THEN R(i * j) ELSE R(j * k)
      [] prof = "ax1"  -> IF dir = 1 THEN R(AxisOneSlope * i) ELSE R(0)

FluxPsiVal(prof, b, dir, k, j, i) ==
    CASE prof = "zero" -> R(0)
      [] prof = "lin"  -> IF dir = 1 THEN R(i) ELSE IF dir = 2 THEN R(2 * j) ELSE R(3 * k)

ConsBVal(prof, b, v, k, j, i) ==
    CASE prof = "zero" -> R(0)
      [] prof = "var"  -> R(v + i + b)

ConsPsiVal(prof, b, k, j, i) ==
    CASE prof = "zero" -> R(0)
      [] prof = "var"  -> R(1 + j)

\* A snapshot of one block: cons.B, cons.psi_cd, prims.B, prims.psi_cd, divB,
\* and the fluxes of cons.B and cons.psi_cd.
Snapshot(m, b, fb, fpsi, cons) ==
    [consB    |-> [v \in VLOOP |-> [c \in Cells(m) |-> ConsBVal(cons, b, v, c[1], c[2], c[3])]],
     consPsi  |-> [c \in Cells(m) |-> ConsPsiVal(cons, b, c[1], c[2], c[3])],
     primsB   |-> [v \in VLOOP |-> [c \in Cells(m) |-> ConsBVal(cons, b, v, c[1], c[2], c[3])]],
     primsPsi |-> [c \in Cells(m) |-> ConsPsiVal(cons, b, c[1], c[2], c[3])],
     divB     |-> [c \in Cells(m) |-> R(0)],
     fluxB    |-> [dir \in 1..3 |-> [c \in Cells(m) |-> FluxBVal(fb, b, dir, c[1], c[2], c[3])]],
     fluxPsi  |-> [dir \in 1..3 |-> [c \in Cells(m) |-> FluxPsiVal(fpsi, b, dir, c[1], c[2], c[3])]]]

\* The meshes and the fillings of the fields a call is made on.
Meshes ==
    [ndim : 1..3, nx1 : 2..MaxNx1, nblocks : 1..MaxBlocks, gkind : GeomKinds,
     damping : {R(0), Frac(1, 10)}]

\* The mesh of given dimension: nx[a] interior cells along axis a.
MeshOf(p) ==
    [ndim    |-> p.ndim,
     nx      |-> <<p.nx1,
                   IF p.ndim >= 2 THEN NxOther ELSE 1,
                   IF p.ndim >= 3 THEN NxOther ELSE 1>>,
     nblocks |-> p.nblocks,
     gkind   |-> p.gkind,
     damping |-> p.damping]

Fill(fb, fpsi, cons, prior) ==
    [fluxB |-> fb, fluxPsi |-> fpsi, cons |-> cons, prior |-> prior]

Inputs ==
    { Fill("zero", "zero", "zero", "zero"),
      Fill("zero", "zero", "zero", "var"),
      Fill("zero", "lin", "zero", "zero"),
      Fill("lin", "zero", "var", "var"),
      Fill("lin", "lin", "var", "var"),
      Fill("bump", "lin", "var", "zero") }

\* The state snapshot and the rate-of-change snapshot as filled before a call.
StateData(m, in) == [b \in Blocks(m) |-> Snapshot(m, b, in.fluxB, in.fluxPsi, in.cons)]
RateData(m, in) == [b \in Blocks(m) |-> Snapshot(m, b, "zero", "zero", in.prior)]

\* ------------------------------------------------------------------------
\* B_CD::AddSource (b_cd.cpp 130-191)
\* ------------------------------------------------------------------------

\* b_cd.cpp 149-151, 154: the cells the kernel visits, the interior.
InInterior(m, c) ==
    /\ c[1] \in IntS(m, 3)..IntE(m, 3)
    /\ c[2] \in IntS(m, 2)..IntE(m, 2)
    /\ c[3] \in IntS(m, 1)..IntE(m, 1)

\* b_cd.cpp 158: the lapse at the cell centre.
alpha_c(m, j, i) == Over(R(1), Sqrt(Neg(gcon(m, "center", j, i, 0, 0))))

\* b_cd.cpp 161-163: divB of the cell from the fluxes of cons.B.
SourceDivB(m, junk, snap, k, j, i) ==
    LET F(d, kk, jj, ii) == At(snap.fluxB[d], <<kk, jj, ii>>, junk)
        two == Plus(Over(Minus(F(1, k, j, i + 1), F(1, k, j, i)), dx1v(m, i, junk)),
                    Over(Minus(F(2, k, j + 1, i), F(2, k, j, i)), dx2v(m, j, junk)))
    IN IF m.ndim > 2
       THEN Plus(two, Over(Minus(F(3, k + 1, j, i), F(3, k, j, i)), dx3v(m, k, junk)))
       ELSE two

\* b_cd.cpp 166-178: what the loop over v adds to B_DU(b, v, k, j, i).
SourceB(m, junk, snap, v, k, j, i) ==
    LET P(d, kk, jj, ii) == At(snap.fluxPsi[d], <<kk, jj, ii>>, junk)
        a == alpha_c(m, j, i)
        g(mu, nu) == gcon(m, "center", j, i, mu, nu)
        two == Plus(Over(Times(Times(a, g(v + 1, 1)),
                               Minus(P(1, k, j, i + 1), P(1, k, j, i))), dx1v(m, i, junk)),
                    Over(Times(Times(a, g(v + 1, 2)),
                               Minus(P(2, k, j + 1, i), P(2, k, j, i))), dx2v(m, j, junk)))
        grad == IF m.ndim > 2
                THEN Plus(two, Over(Times(Times(a, g(v + 1, 3)),
                                          Minus(P(3, k + 1, j, i), P(3, k, j, i))),
                                    dx3v(m, k, junk)))
                ELSE two
    IN Plus(grad, Times(Times(Times(g(0, v + 1), a), a), SourceDivB(m, junk, snap, k, j, i)))

\* 1/sqrt(-gcon(loc, j, i, 0, 0)) / gdet(loc, j, i), as in b_cd.cpp 180-183.
LapseOverGdet(m, loc, j, i) ==
    Over(Over(R(1), Sqrt(Neg(gcon(m, loc, j, i, 0, 0)))), gdet(m, loc, j, i))

\* b_cd.cpp 180-181
dalpha1(m, junk, j, i) ==
    Over(Minus(LapseOverGdet(m, "face1", j, i + 1), LapseOverGdet(m, "face1", j, i)),
         dx1v(m, i, junk))

\* b_cd.cpp 182-183: the spacing is read as dx2v(i).
dalpha2(m, junk, j, i) ==
    Over(Minus(LapseOverGdet(m, "face2", j + 1, i), LapseOverGdet(m, "face2", j, i)),
         dx2v(m, i, junk))

\* b_cd.cpp 185: what is added to psi_DU(b, 0, k, j, i), from the values
\* B_U(b, V1, k, j, i), B_U(b, V2, k, j, i) and psi_U(b, 0, k, j, i) read there.
SourcePsi(m, junk, b1, b2, psi, j, i) ==
    Minus(Plus(Times(b1, dalpha1(m, junk, j, i)), Times(b2, dalpha2(m, junk, j, i))),
          Times(Times(alpha_c(m, j, i), m.damping), psi))

\* b_cd.cpp 161-183: the reads of the spacing arrays the kernel makes: the
\* line, the axis of the array, the axis of the index used, and the index.
SpacingLookups(m) ==
    IF m.ndim < 2 THEN {}
    ELSE UNION {
           {[line |-> l, axis |-> 1, by |-> 1, idx |-> c[3]] : l \in {161, 169, 181}}
             \cup {[line |-> l, axis |-> 2, by |-> 2, idx |-> c[2]] : l \in {162, 171}}
             \cup (IF m.ndim > 2
                   THEN {[line |-> l, axis |-> 3, by |-> 3, idx |-> c[1]] : l \in {163, 174}}
                   ELSE {})
             \cup {[line |-> 183, axis |-> 2, by |-> 1, idx |-> c[3]]} :
           c \in {d \in Cells(m) : InInterior(m, d)} }

\* b_cd.cpp 138-190: the kernel. B_U, B_DU and psi_U are packed from md (lines
\* 140, 143, 144), psi_DU from mdudt (line 141); B_DU and B_U are the same
\* array, so line 185 reads the B that lines 166-178 have just updated.
AddSourceKernel(m, junk, state, rate) ==
    LET B_DU(b, v, c) ==
            IF InInterior(m, c)
            THEN Plus(state[b].consB[v][c],
                      SourceB(m, junk, state[b], v, c[1], c[2], c[3]))
            ELSE state[b].consB[v][c]
        psi_DU(b, c) ==
            IF InInterior(m, c)
            THEN Plus(rate[b].consPsi[c],
                      SourcePsi(m, junk, B_DU(b, V1, c), B_DU(b, V2, c),
                                state[b].consPsi[c], c[2], c[3]))
            ELSE rate[b].consPsi[c]
    IN [md     |-> [b \in Blocks(m) |->
                      [state[b] EXCEPT !.consB =
                          [v \in VLOOP |-> [c \in Cells(m) |-> B_DU(b, v, c)]]]],
        mdudt  |-> [b \in Blocks(m) |->
                      [rate[b] EXCEPT !.consPsi = [c \in Cells(m) |-> psi_DU(b, c)]]],
        status |-> "complete"]

\* AddSource without the return of line 136.
AddSource_NoDimCheck(m, junk, state, rate) == AddSourceKernel(m, junk, state, rate)

\* b_cd.cpp 130-191
AddSource(m, junk, state, rate) ==
    IF m.ndim < 2
    THEN [md |-> state, mdudt |-> rate, status |-> "complete"]
    ELSE AddSourceKernel(m, junk, state, rate)

\* ------------------------------------------------------------------------
\* B_CD::MaxDivB (b_cd.cpp 195-226)
\* ------------------------------------------------------------------------

\* The identity of Kokkos::Max<Real>: the lowest Real.
RealLowest == <<-1000000, 1>>

\* The largest of a set of fractions, starting from init.
MaxOf(S, init) ==
    LET T == S \cup {init}
    IN CHOOSE x \in T : \A y \in T : ~Less(x, y)

\* The reduction made over the whole interior.
InStencilRange_Interior(m, c) == InInterior(m, c)

\* b_cd.cpp 209-211, 215: the cells of the reduction, the interior without
\* its last layer along axes 1 and 2, and along axis 3 when ndim > 2.
InStencilRange(m, c) ==
    /\ c[3] \in IntS(m, 1)..(IntE(m, 1) - 1)
    /\ c[2] \in IntS(m, 2)..(IntE(m, 2) - 1)
    /\ c[1] \in IntS(m, 3)..(IF m.ndim > 2 THEN IntE(m, 3) - 1 ELSE IntE(m, 3))

\* b_cd.cpp 218-220: divb_local of a cell.
divb_local(m, junk, snap, k, j, i) ==
    LET F(d, kk, jj, ii) == At(snap.fluxB[d], <<kk, jj, ii>>, junk)
        two == Plus(Over(Minus(F(1, k, j, i + 1), F(1, k, j, i)), dx1v(m, i, junk)),
                    Over(Minus(F(2, k, j + 1, i), F(2, k, j, i)), dx2v(m, j, junk)))
    IN IF m.ndim > 2
       THEN Plus(two, Over(Minus(F(3, k + 1, j, i), F(3, k, j, i)), dx3v(m, k, junk)))
       ELSE two

\* MaxDivB without the return of line 200.
MaxDivB_NoDimCheck(m, junk, state) ==
    MaxOf({divb_local(m, junk, state[b], c[1], c[2], c[3]) :
               b \in Blocks(m), c \in {d \in Cells(m) : InStencilRange(m, d)}},
          RealLowest)

\* b_cd.cpp 195-226
MaxDivB(m, junk, state) ==
    IF m.ndim < 2 THEN R(0)
    ELSE MaxOf({divb_local(m, junk, state[b], c[1], c[2], c[3]) :
                    b \in Blocks(m), c \in {d \in Cells(m) : InStencilRange(m, d)}},
               RealLowest)

\* The entries of the fluxes of cons.B the call reads: <<block, dir, cell>>.
\* The return of line 200 comes before the pack of line 202.
MaxDivBReads(m) ==
    IF m.ndim < 2 THEN {}
    ELSE UNION { {<<b, 1, c>>, <<b, 1, <<c[1], c[2], c[3] + 1>>>>,
                  <<b, 2, c>>, <<b, 2, <<c[1], c[2] + 1, c[3]>>>>}
                   \cup (IF m.ndim > 2
                         THEN {<<b, 3, c>>, <<b, 3, <<c[1] + 1, c[2], c[3]>>>>}
                         ELSE {}) :
                 b \in Blocks(m), c \in {d \in Cells(m) : InStencilRange(m, d)} }

\* ------------------------------------------------------------------------
\* B_CD::UtoP (b_cd.cpp 102-128)
\* ------------------------------------------------------------------------
Domains == {"interior", "entire"}

\* b_cd.cpp 114-117: the index range of axis a of the domain, on the block's
\* cells or on its coarse cells (half as many along each active axis).
BoundsOf(m, a, domain, coarse) ==
    LET n == IF coarse /\ AxisActive(m, a) THEN m.nx[a] \div 2 ELSE m.nx[a]
    IN IF ~AxisActive(m, a) THEN {0}
       ELSE IF domain = "interior" THEN NGhost..(NGhost + n - 1)
       ELSE 0..(n + 2 * NGhost - 1)

\* b_cd.cpp 118: the cells the kernel visits.
InDomain(m, c, domain, coarse) ==
    /\ c[1] \in BoundsOf(m, 3, domain, coarse)
    /\ c[2] \in BoundsOf(m, 2, domain, coarse)
    /\ c[3] \in BoundsOf(m, 1, domain, coarse)

\* b_cd.cpp 102-128, on the snapshot rc of one block. There is no test of ndim.
UtoP(m, snap, domain, coarse) ==
    [snap EXCEPT
          !.primsB = [v \in VLOOP |-> [c \in Cells(m) |->
                         IF InDomain(m, c, domain, coarse)
                         THEN Over(snap.consB[v][c], gdet(m, "center", c[2], c[3]))
                         ELSE snap.primsB[v][c]]],
          !.primsPsi = [c \in Cells(m) |->
                         IF InDomain(m, c, domain, coarse)
                         THEN Over(snap.consPsi[c], gdet(m, "center", c[2], c[3]))
                         ELSE snap.primsPsi[c]]]

\* ------------------------------------------------------------------------
\* B_CD::FillOutput (b_cd.cpp 250-285)
\* ------------------------------------------------------------------------

\* b_cd.cpp 266-272, 276: il, jl, kl of FillOutput.
InOutputRange(m, c) ==
    /\ c[3] \in IntS(m, 1)..(IntE(m, 1) - 1)
    /\ c[2] \in IntS(m, 2)..(IntE(m, 2) - 1)
    /\ c[1] \in IntS(m, 3)..(IF m.ndim > 2 THEN IntE(m, 3) - 1 ELSE IntE(m, 3))

\* The estimate of FillOutput without its axis-2 term.
OutputDivb_NoAxis2(m, junk, snap, k, j, i) ==
    Over(Minus(At(snap.fluxB[1], <<k, j, i + 1>>, junk), At(snap.fluxB[1], <<k, j, i>>, junk)),
         dx1v(m, i, junk))

\* b_cd.cpp 278-280: divb_local of FillOutput, from F1, F2, F3.
OutputDivb(m, junk, snap, k, j, i) ==
    LET F1(kk, jj, ii) == At(snap.fluxB[1], <<kk, jj, ii>>, junk)
        F2(kk, jj, ii) == At(snap.fluxB[2], <<kk, jj, ii>>, junk)
        F3(kk, jj, ii) == At(snap.fluxB[3], <<kk, jj, ii>>, junk)
        two == Plus(Over(Minus(F1(k, j, i + 1), F1(k, j, i)), dx1v(m, i, junk)),
                    Over(Minus(F2(k, j + 1, i), F2(k, j, i)), dx2v(m, j, junk)))
    IN IF m.ndim > 2
       THEN Plus(two, Over(Minus(F3(k + 1, j, i), F3(k, j, i)), dx3v(m, k, junk)))
       ELSE two

\* b_cd.cpp 250-285, on the snapshot of one block.
FillOutput(m, junk, snap) ==
    IF m.ndim < 2 THEN snap
    ELSE [snap EXCEPT !.divB = [c \in Cells(m) |->
                         IF InOutputRange(m, c)
                         THEN OutputDivb(m, junk, snap, c[1], c[2], c[3])
                         ELSE snap.divB[c]]]

\* ------------------------------------------------------------------------
\* InitializeRest and SetRest (prob/rest_conserve.cpp)
\* ------------------------------------------------------------------------

\* A table (ParameterInput or Params) with key k set to v.
Put(t, k, v) == [x \in (DOMAIN t) \cup {k} |-> IF x = k THEN v ELSE t[x]]

\* pin->GetOrAddReal / GetOrAddBoolean: the value read, and the input after it.
GetOr(t, k, dflt) == IF k \in DOMAIN t THEN t[k] ELSE dflt
OrAdd(t, k, dflt) == IF k \in DOMAIN t THEN t ELSE Put(t, k, dflt)

\* g_params.Add made whether or not the key is there.
AddIfAbsent_Overwrite(t, k, v) == Put(t, k, v)

\* rest_conserve.cpp 21-25, 31: if(!g_params.hasKey(k)) g_params.Add(k, v).
AddIfAbsent(t, k, v) == IF k \in DOMAIN t THEN t ELSE Put(t, k, v)

\* The test of line 35 without q != 0.
SetTlimGuard_NoZeroTest(set_tlim, q, dyntimes) ==
    set_tlim /\ ~(Less(q, R(0)) /\ Less(R(1), dyntimes))

\* rest_conserve.cpp 35
SetTlimGuard(set_tlim, q, dyntimes) ==
    set_tlim /\ q # R(0) /\ ~(Less(q, R(0)) /\ Less(R(1), dyntimes))

\* rest_conserve.cpp 36: abs(q) of a Real.
AbsR(a) == <<Abs(a[1]), a[2]>>

\* pow(x, -n) for a whole n.
RECURSIVE PowNeg(_, _)
PowNeg(x, n) == IF n = 0 THEN R(1) ELSE Over(PowNeg(x, n - 1), x)

\* The parameters fel_0 and gamma_e of the Electrons package.
FelZero == Frac(1, 2)
GammaE == 2

\* rest_conserve.cpp 31
KeZero(u0, rho0) ==
    Times(Times(Times(R(GammaE - 1), FelZero), u0), PowNeg(rho0, GammaE))

\* rest_conserve.cpp 45-92: SetRest writes the same values to every cell of the
\* domain; they are read from the GRMHD parameter table.
SetRest(g, el) ==
    [rho  |-> g["rho0"],
     u    |-> g["u0"],
     uvec |-> <<g["v0"], R(0), R(0)>>,
     kel  |-> IF el THEN g["ke0"] ELSE "unset"]

\* ------------------------------------------------------------------------
\* B_CD::PostStepDiagnostics (b_cd.cpp 228-248) and the reduction it uses
\* ------------------------------------------------------------------------
Procs == 0..(NProcs - 1)

\* The reduction made to the last rank instead of rank 0.
ReduceRoot_Last == NProcs - 1

\* b_cd.cpp 238: the rank StartReduce(0, MPI_MAX) reduces to.
ReduceRoot == 0

\* The print of line 242 made on every rank.
MPIRank0_Every(p) == TRUE

\* b_cd.cpp 241: MPIRank0(), the rank that prints.
MPIRank0(p) == p = 0

\* The meshes a rank may hold in a timestep.
DiagCases ==
    { [mesh |-> [ndim |-> 1, nx1 |-> 2, nblocks |-> 1, gkind |-> "flat", damping |-> R(0)],
       fluxB |-> "lin"],
      [mesh |-> [ndim |-> 2, nx1 |-> 2, nblocks |-> 1, gkind |-> "flat", damping |-> R(0)],
       fluxB |-> "lin"],
      [mesh |-> [ndim |-> 2, nx1 |-> 3, nblocks |-> 2, gkind |-> "shift", damping |-> R(0)],
       fluxB |-> "bump"] }

\* The state snapshot of a case.
CaseData(cs) ==
    StateData(MeshOf(cs.mesh),
              [fluxB |-> cs.fluxB, fluxPsi |-> "zero", cons |-> "zero", prior |-> "zero"])

\* What MaxDivB returns on each case.
LocalMaxDivB ==
    [cs \in DiagCases, junk \in Junk |-> MaxDivB(MeshOf(cs.mesh), junk, CaseData(cs))]

\* A reduction whose request never completes on the root.
ReduceReady_RootNever(p, root, n) == p # root /\ Len(sent[p]) >= n

\* The n-th reduction of the communicator, MPI_Ireduce(MPI_MAX) to root: the
\* root's request completes once every rank has started its n-th reduction,
\* a sender's once it has started its own.
ReduceReady(p, root, n) ==
    IF p = root THEN \A q \in Procs : Len(sent[q]) >= n ELSE Len(sent[p]) >= n

\* What the completed n-th reduction leaves in max_divb.val of rank p: the
\* maximum on the root, the rank's own value elsewhere.
ReduceResult(p, root, n) ==
    IF p = root
    THEN MaxOf({sent[q][n] : q \in Procs}, sent[p][n])
    ELSE val[p]

\* ------------------------------------------------------------------------
\* The driver: snapshots
\* ------------------------------------------------------------------------

\* MultiStageDriver::stage_name: "base" for stage 0 and for the last stage
\* (the last stage writes back into the base snapshot), "1", "2", ... between.
stage_name(i, nst) == IF i = 0 \/ i = nst THEN "base" ELSE ToString(i)

\* harm.cpp 57-62 with the stage-1 guard dropped: the snapshots are added again
\* in every stage.
StageOneAdds_EveryStage(stg, nst) ==
    <<"dUdt">> \o [i \in 1..(nst - 1) |-> stage_name(i, nst)]

\* harm.cpp 57-62: the names handed to real_containers.Add, in call order.
StageOneAdds(stg, nst) ==
    IF stg = 1
    THEN <<"dUdt">> \o [i \in 1..(nst - 1) |-> stage_name(i, nst)]
    ELSE <<>>

\* harm.cpp 65-69: the names handed to real_containers.Get (sc0, dudt, sc1).
StageGets(stg, nst) ==
    <<stage_name(stg - 1, nst), "dUdt", stage_name(stg, nst)>>

\* ------------------------------------------------------------------------
\* The driver: the task list
\* ------------------------------------------------------------------------

\* TaskID none(0): no dependency.
none == {}

\* One entry of the TaskList: its id, the ids it depends on, the snapshots it
\* is handed by (non-const) reference, and whether the callee is written in
\* harm.cpp itself (a lambda that can only return TaskStatus::complete).
Task(id, dep, args, lambda) ==
    [id |-> id, dep |-> dep, args |-> args, lambda |-> lambda]

AddContainerTask(id, dep, sc) == Task(id, dep, {sc}, FALSE)
AddTwoContainerTask(id, dep, sca, scb) == Task(id, dep, {sca, scb}, FALSE)
\* UpdateContainer(pmb, stage, stage_name, integrator): works on the snapshots
\* stage_name[stage-1], dUdt and stage_name[stage].
AddUpdateTask(id, dep, stg, nst) ==
    Task(id, dep, {stage_name(stg - 1, nst), "dUdt", stage_name(stg, nst)}, FALSE)
\* tl.AddTask<BlockTask>(lambda, dep, pmb): a lambda handed the block.
AddBlockTask(id, dep) == Task(id, dep, {}, TRUE)
\* AddContainerTask with a lambda written in place (harm.cpp 119-123).
AddLambdaContainerTask(id, dep, sc) == Task(id, dep, {sc}, TRUE)

\* harm.cpp 71-90: receive start, fluxes, flux correction, dU/dt, update.
\* The flux tasks with calculate_flux made to wait for flux_divergence, a task
\* added after it.
FluxTasks_ForwardDep(stg, nst) ==
    LET sc0  == stage_name(stg - 1, nst)
        dudt == "dUdt"
        sc1  == stage_name(stg, nst)
    IN << AddContainerTask("start_recv", none, sc1),
          AddContainerTask("calculate_flux", {"flux_divergence"}, sc0),
          AddContainerTask("send_flux", {"calculate_flux"}, sc0),
          AddContainerTask("recv_flux", {"calculate_flux"}, sc0),
          AddTwoContainerTask("flux_divergence", {"recv_flux"}, sc0, dudt),
          AddTwoContainerTask("source_term", {"flux_divergence"}, sc0, dudt),
          AddUpdateTask("update_container", {"source_term"}, stg, nst) >>

FluxTasks(stg, nst) ==
    LET sc0  == stage_name(stg - 1, nst)
        dudt == "dUdt"
        sc1  == stage_name(stg, nst)
    IN << AddContainerTask("start_recv", none, sc1),
          AddContainerTask("calculate_flux", {"start_recv"}, sc0),
          AddContainerTask("send_flux", {"calculate_flux"}, sc0),
          AddContainerTask("recv_flux", {"calculate_flux"}, sc0),
          AddTwoContainerTask("flux_divergence", {"recv_flux"}, sc0, dudt),
          AddTwoContainerTask("source_term", {"flux_divergence"}, sc0, dudt),
          AddUpdateTask("update_container", {"source_term"}, stg, nst) >>

\* harm.cpp 93-115 with the receive made to wait for the update instead of
\* for the send.
BoundaryTasks_RecvAfterUpdate(stg, nst) ==
    LET sc1 == stage_name(stg, nst)
    IN << AddContainerTask("send", {"update_container"}, sc1),
          AddContainerTask("recv", {"update_container"}, sc1),
          AddContainerTask("fill_from_bufs", {"recv"}, sc1),
          AddContainerTask("clear_comm_flags", {"fill_from_bufs"}, sc1),
          AddBlockTask("prolong_bound", {"fill_from_bufs"}),
          AddContainerTask("set_parthenon_bc", {"prolong_bound"}, sc1),
          AddContainerTask("set_custom_bc", {"set_parthenon_bc"}, sc1),
          AddContainerTask("fill_derived", {"set_custom_bc"}, sc1) >>

\* harm.cpp 93-115: ghost-zone exchange, prolongation, boundary conditions,
\* derived fields.
BoundaryTasks(stg, nst) ==
    LET sc1 == stage_name(stg, nst)
    IN << AddContainerTask("send", {"update_container"}, sc1),
          AddContainerTask("recv", {"send"}, sc1),
          AddContainerTask("fill_from_bufs", {"recv"}, sc1),
          AddContainerTask("clear_comm_flags", {"fill_from_bufs"}, sc1),
          AddBlockTask("prolong_bound", {"fill_from_bufs"}),
          AddContainerTask("set_parthenon_bc", {"prolong_bound"}, sc1),
          AddContainerTask("set_custom_bc", {"set_parthenon_bc"}, sc1),
          AddContainerTask("fill_derived", {"set_custom_bc"}, sc1) >>

\* harm.cpp 118-138 with the refinement task added whether or not the mesh is
\* adaptive.
FinalStageTasks_AlwaysTag(stg, nst, adapt) ==
    LET sc1 == stage_name(stg, nst)
    IN IF stg = nst
       THEN << AddLambdaContainerTask("new_dt", {"set_custom_bc"}, sc1),
               AddBlockTask("tag_refine", {"set_custom_bc"}) >>
       ELSE <<>>

\* harm.cpp 118-138: the timestep estimate and the refinement check.
FinalStageTasks(stg, nst, adapt) ==
    LET sc1 == stage_name(stg, nst)
    IN IF stg = nst
       THEN << AddLambdaContainerTask("new_dt", {"set_custom_bc"}, sc1) >>
            \o (IF adapt THEN << AddBlockTask("tag_refine", {"set_custom_bc"}) >> ELSE <<>>)
       ELSE <<>>

\* harm.cpp 51-140: the TaskList the call returns.
MakeTaskList(stg, nst, adapt) ==
    FluxTasks(stg, nst) \o BoundaryTasks(stg, nst) \o FinalStageTasks(stg, nst, adapt)

AllTasks ==
    {"start_recv", "calculate_flux", "send_flux", "recv_flux", "flux_divergence",
     "source_term", "update_container", "send", "recv", "fill_from_bufs",
     "clear_comm_flags", "prolong_bound", "set_parthenon_bc", "set_custom_bc",
     "fill_derived", "new_dt", "tag_refine"}

\* The communication tasks, which report incomplete until their messages have
\* arrived and are polled again.
PolledTasks == {"start_recv", "send_flux", "recv_flux", "send", "recv"}

TaskIds == {tl[n].id : n \in DOMAIN tl}
TaskOf(id) == tl[CHOOSE n \in DOMAIN tl : tl[n].id = id]
Dep(id) == TaskOf(id).dep
Args(id) == TaskOf(id).args

\* ------------------------------------------------------------------------
\* Idle values: a specification keeps the variables of the others at these
\* ------------------------------------------------------------------------
NoMesh == [ndim |-> 0]
NoInput == [fluxB |-> "none"]
NoCall == [op |-> "none"]

DriverIdle ==
    /\ nstages = 0
    /\ adaptive = FALSE
    /\ cycle = 0
    /\ stage = 0
    /\ phase = "idle"
    /\ real_containers = {}
    /\ addCalls = <<>>
    /\ missing = {}
    /\ tl = <<>>
    /\ status = <<>>
    /\ order = <<>>

DiagIdle ==
    /\ verbose = 0
    /\ pcP = <<>>
    /\ tstep = <<>>
    /\ val = <<>>
    /\ active = <<>>
    /\ sent = <<>>
    /\ locals = <<>>
    /\ reports = <<>>

SourceIdle ==
    /\ mesh = NoMesh
    /\ inp = NoInput
    /\ md = <<>>
    /\ mdudt = <<>>
    /\ pcS = "idle"
    /\ ret = "none"
    /\ kcall = NoCall
    /\ kret = NoCall

RestIdle ==
    /\ pin = <<>>
    /\ g_params = <<>>
    /\ electrons = FALSE
    /\ prims = <<>>
    /\ runs = <<>>
    /\ quotients = <<>>


\* ------------------------------------------------------------------------
\* The driver: execution of a task list
\* ------------------------------------------------------------------------

\* The dependency check with the dependencies ignored.
CheckDependencies_Ignore(id) == TRUE

\* A task may run once every task it depends on is complete.
CheckDependencies(id) == \A d \in Dep(id) : status[d] = "complete"

Eligible(id) ==
    /\ id \in TaskIds
    /\ status[id] \in {"pending", "running"}
    /\ CheckDependencies(id)

\* What a visit of the task can report.
Outcomes(id) ==
    {"complete"}
      \cup (IF id \in PolledTasks THEN {"incomplete"} ELSE {})
      \cup (IF TaskOf(id).lambda THEN {} ELSE {"fail"})

InitDriver ==
    /\ nstages \in 1..MaxStages
    /\ adaptive \in BOOLEAN
    /\ cycle = 1
    /\ stage = 0
    /\ phase = "build"
    /\ real_containers = {"base"}
    /\ addCalls = [n \in {} |-> <<>>]
    /\ missing = {}
    /\ tl = <<>>
    /\ status = [t \in AllTasks |-> "absent"]
    /\ order = <<>>
    /\ SourceIdle
    /\ DiagIdle
    /\ RestIdle

\* The names of a sequence of Add calls, each recorded with the stage it is
\* made in.
RECURSIVE RecordAdds(_, _, _)
RecordAdds(calls, names, stg) ==
    IF names = <<>> THEN calls
    ELSE LET n == Head(names)
             old == IF n \in DOMAIN calls THEN calls[n] ELSE <<>>
         IN RecordAdds([m \in (DOMAIN calls) \cup {n} |->
                           IF m = n THEN Append(old, stg) ELSE calls[m]],
                       Tail(names), stg)

\* One call of MakeTaskList(pmb, stage) (harm.cpp 51-140) for the next stage.
\* A Get of an absent snapshot throws.
BuildStage ==
    /\ phase = "build"
    /\ LET stg   == stage + 1
           adds  == StageOneAdds(stg, nstages)
           held  == real_containers \cup Range(adds)
           gets  == Range(StageGets(stg, nstages))
           list  == MakeTaskList(stg, nstages, adaptive)
       IN /\ stage' = stg
          /\ real_containers' = held
          /\ addCalls' = RecordAdds(addCalls, adds, stg)
          /\ missing' = missing \cup (gets \ held)
          /\ IF gets \subseteq held
             THEN /\ tl' = list
                  /\ status' = [t \in AllTasks |->
                                   IF \E n \in DOMAIN list : list[n].id = t
                                   THEN "pending" ELSE "absent"]
                  /\ phase' = "exec"
             ELSE /\ tl' = <<>>
                  /\ status' = [t \in AllTasks |-> "absent"]
                  /\ phase' = "threw"
          /\ order' = <<>>
    /\ UNCHANGED <<nstages, adaptive, cycle>>
    /\ UNCHANGED <<sourceVars, diagVars, restVars>>

\* A failure that the execution of the list passes over.
AfterVisit_IgnoreFailure(outcome, ph) == ph

\* The phase after a visit: a failure ends the execution of the list and is
\* what the caller gets back.
AfterVisit(outcome, ph) == IF outcome = "fail" THEN "failed" ELSE ph

\* One visit of an eligible task. A task that reports incomplete stays in the
\* list and is visited again; a failure aborts the rest of the graph.
RunTask(id, outcome) ==
    /\ phase = "exec"
    /\ Eligible(id)
    /\ outcome \in Outcomes(id)
    /\ status' = [status EXCEPT ![id] =
                     CASE outcome = "complete"   -> "complete"
                       [] outcome = "incomplete" -> "running"
                       [] outcome = "fail"       -> "failed"]
    /\ order' = IF outcome = "complete" THEN Append(order, id) ELSE order
    /\ phase' = AfterVisit(outcome, phase)
    /\ UNCHANGED <<nstages, adaptive, cycle, stage, real_containers, addCalls,
                   missing, tl>>
    /\ UNCHANGED <<sourceVars, diagVars, restVars>>

\* The list taken as complete once its main chain has reached fill_derived.
IsComplete_ChainEnd == status["fill_derived"] = "complete"

\* The task list is complete when every task in it is.
IsComplete == \A id \in TaskIds : status[id] = "complete"

\* The stage is done once every task of its list is complete; after the last
\* stage the next timestep begins. The snapshots are kept (the purge of
\* harm.cpp 133-137 is commented out).
StageDone ==
    /\ phase = "exec"
    /\ IsComplete
    /\ IF stage < nstages
       THEN /\ phase' = "build"
            /\ UNCHANGED <<cycle, stage, addCalls>>
       ELSE /\ stage' = 0
            /\ addCalls' = [n \in {} |-> <<>>]
            /\ IF cycle < MaxCycles
               THEN cycle' = cycle + 1 /\ phase' = "build"
               ELSE cycle' = cycle /\ phase' = "finished"
    /\ UNCHANGED <<nstages, adaptive, real_containers, missing, tl, status, order>>
    /\ UNCHANGED <<sourceVars, diagVars, restVars>>

NextDriver ==
    \/ BuildStage
    \/ \E id \in AllTasks, outcome \in {"complete", "incomplete", "fail"} :
          RunTask(id, outcome)
    \/ StageDone

SpecDriver == InitDriver /\ [][NextDriver]_vars

\* The driver when no task fails.
NextDriverLive ==
    \/ BuildStage
    \/ \E id \in AllTasks, outcome \in {"complete", "incomplete"} :
          RunTask(id, outcome)
    \/ StageDone

\* Every task that can run is visited until it reports complete, and the
\* driver goes on from a complete list.
FairDriver ==
    /\ WF_vars(BuildStage)
    /\ \A id \in AllTasks : WF_vars(RunTask(id, "complete"))
    /\ WF_vars(StageDone)

SpecDriverLive == InitDriver /\ [][NextDriverLive]_vars /\ FairDriver

\* ------------------------------------------------------------------------
\* Specification of the B_CD kernels: one call on a mesh filled from profiles
\* ------------------------------------------------------------------------
InitSource ==
    /\ \E p \in Meshes : mesh = MeshOf(p)
    /\ inp \in Inputs
    /\ md = StateData(mesh, inp)
    /\ mdudt = RateData(mesh, inp)
    /\ pcS = "ready"
    /\ ret = "none"
    /\ kcall = NoCall
    /\ kret = NoCall
    /\ DriverIdle
    /\ DiagIdle
    /\ RestIdle

\* The source-term task calls AddSource(md, mdudt).
CallAddSource ==
    /\ pcS = "ready"
    /\ \E junk \in Junk :
          LET r == AddSource(mesh, junk, md, mdudt)
          IN /\ md' = r.md
             /\ mdudt' = r.mdudt
             /\ ret' = r.status
    /\ pcS' = "done"
    /\ UNCHANGED <<mesh, inp, kcall, kret>>
    /\ UNCHANGED <<driverVars, diagVars, restVars>>

NextSource == CallAddSource

SpecSource == InitSource /\ [][NextSource]_vars

\* ------------------------------------------------------------------------
\* Specification of the other B_CD kernels: one call of UtoP, MaxDivB or
\* FillOutput on a mesh filled from profiles
\* ------------------------------------------------------------------------

\* The fillings of cons.B, cons.psi_cd and the fluxes of cons.B for these calls.
KernelInputs ==
    { Fill("zero", "zero", "zero", "zero"),
      Fill("lin", "zero", "var", "zero"),
      Fill("bump", "zero", "var", "zero"),
      Fill("ax1", "zero", "zero", "zero") }

InitKernels ==
    /\ \E p \in Meshes : p.damping = R(0) /\ mesh = MeshOf(p)
    /\ inp \in KernelInputs
    /\ md = StateData(mesh, inp)
    /\ mdudt = <<>>
    /\ pcS = "ready"
    /\ ret = "none"
    /\ kcall = NoCall
    /\ kret = NoCall
    /\ DriverIdle
    /\ DiagIdle
    /\ RestIdle

\* The fill-derived task calls UtoP(rc, domain, coarse) on one block.
CallUtoP ==
    /\ pcS = "ready"
    /\ \E b \in Blocks(mesh), domain \in Domains, coarse \in BOOLEAN :
          /\ md' = [md EXCEPT ![b] = UtoP(mesh, md[b], domain, coarse)]
          /\ kcall' = [op |-> "UtoP", block |-> b, domain |-> domain, coarse |-> coarse]
    /\ pcS' = "done"
    /\ UNCHANGED <<mesh, inp, mdudt, ret, kret>>
    /\ UNCHANGED <<driverVars, diagVars, restVars>>

\* A call of MaxDivB(md).
CallMaxDivB ==
    /\ pcS = "ready"
    /\ \E junk \in Junk :
          kret' = [value |-> MaxDivB(mesh, junk, md), reads |-> MaxDivBReads(mesh)]
    /\ kcall' = [op |-> "MaxDivB"]
    /\ pcS' = "done"
    /\ UNCHANGED <<mesh, inp, md, mdudt, ret>>
    /\ UNCHANGED <<driverVars, diagVars, restVars>>

\* The output hook calls FillOutput(pmb, pin) on one block.
CallFillOutput ==
    /\ pcS = "ready"
    /\ \E b \in Blocks(mesh), junk \in Junk :
          /\ md' = [md EXCEPT ![b] = FillOutput(mesh, junk, md[b])]
          /\ kcall' = [op |-> "FillOutput", block |-> b]
    /\ pcS' = "done"
    /\ UNCHANGED <<mesh, inp, mdudt, ret, kret>>
    /\ UNCHANGED <<driverVars, diagVars, restVars>>

NextKernels ==
    \/ CallUtoP
    \/ CallMaxDivB
    \/ CallFillOutput

SpecKernels == InitKernels /\ [][NextKernels]_vars

\* ------------------------------------------------------------------------
\* Specification of the rest problem: InitializeRest is called once per block,
\* on an input file and a GRMHD parameter table that other code may have
\* filled in part
\* ------------------------------------------------------------------------

\* What the input file gives for a name: <<>> when absent, <<v>> when present.
RestInputs ==
    [set_tlim : {<<>>, <<TRUE>>, <<FALSE>>},
     q        : {<<>>, <<R(0)>>, <<Frac(1, 2)>>, <<R(-1)>>},
     dyntimes : {<<>>, <<R(2)>>},
     u0       : {<<>>, <<R(3)>>},
     rho0     : {<<>>, <<R(2)>>}]

\* The time limit the input file gives.
TlimGiven == R(10)

With(t, k, o) == IF o = <<>> THEN t ELSE Put(t, k, o[1])

PinOf(in) ==
    With(With(With(With(With(Put(<<>>, "parthenon/time/tlim", TlimGiven),
        "rest/set_tlim", in.set_tlim), "rest/q", in.q), "rest/dyntimes", in.dyntimes),
        "rest/u0", in.u0), "rest/rho0", in.rho0)

\* The GRMHD parameter table before the first call.
GParamPresets ==
    { <<>>,
      Put(<<>>, "q", R(5)),
      Put(Put(Put(<<>>, "rho0", R(9)), "u0", R(9)), "ke0", R(9)) }

InitRest ==
    /\ \E in \in RestInputs : pin = PinOf(in)
    /\ g_params \in GParamPresets
    /\ electrons \in BOOLEAN
    /\ prims = [b \in 0..(MaxBlocks - 1) |-> <<>>]
    /\ runs = <<>>
    /\ quotients = <<>>
    /\ DriverIdle
    /\ SourceIdle
    /\ DiagIdle

\* rest_conserve.cpp 6-43: InitializeRest(rc, pin) on block b.
InitializeRest(b) ==
    /\ Len(runs) < MaxRestRuns
    /\ LET set_tlim == GetOr(pin, "rest/set_tlim", FALSE)
           u0       == GetOr(pin, "rest/u0", R(1))
           rho0     == GetOr(pin, "rest/rho0", R(1))
           v0       == GetOr(pin, "rest/v0", R(1))
           q        == IF "rest/q" \in DOMAIN pin THEN pin["rest/q"] ELSE R(0)
           context_boundaries == GetOr(pin, "rest/context_boundaries", FALSE)
           dyntimes == GetOr(pin, "rest/dyntimes", Frac(1, 2))
           pin1 == OrAdd(OrAdd(OrAdd(OrAdd(OrAdd(OrAdd(pin,
                       "rest/set_tlim", FALSE), "rest/u0", R(1)), "rest/rho0", R(1)),
                       "rest/v0", R(1)), "rest/context_boundaries", FALSE),
                       "rest/dyntimes", Frac(1, 2))
           g1 == AddIfAbsent(AddIfAbsent(AddIfAbsent(AddIfAbsent(AddIfAbsent(g_params,
                       "rho0", rho0), "v0", v0), "u0", u0), "q", q),
                       "context_boundaries", context_boundaries)
           g2 == IF electrons THEN AddIfAbsent(g1, "ke0", KeZero(u0, rho0)) ELSE g1
           num == Times(dyntimes, u0)
       IN /\ IF SetTlimGuard(set_tlim, q, dyntimes)
             THEN /\ pin' = Put(pin1, "parthenon/time/tlim", Over(num, AbsR(q)))
                  /\ quotients' = Append(quotients, [num |-> num, q |-> q])
             ELSE /\ pin' = pin1
                  /\ quotients' = quotients
          /\ g_params' = g2
          /\ prims' = [prims EXCEPT ![b] = SetRest(g2, electrons)]
    /\ runs' = Append(runs, b)
    /\ UNCHANGED electrons
    /\ UNCHANGED <<driverVars, sourceVars, diagVars>>

NextRest == \E b \in 0..(MaxBlocks - 1) : InitializeRest(b)

SpecRest == InitRest /\ [][NextRest]_vars

\* ------------------------------------------------------------------------
\* Specification of the diagnostics: every rank calls PostStepDiagnostics once
\* per timestep
\* ------------------------------------------------------------------------
InitDiag ==
    /\ verbose \in {-1, 0, 1}
    /\ pcP = [p \in Procs |-> "idle"]
    /\ tstep = [p \in Procs |-> 1]
    /\ val = [p \in Procs |-> R(0)]
    /\ active = [p \in Procs |-> FALSE]
    /\ sent = [p \in Procs |-> <<>>]
    /\ locals = [p \in Procs |-> <<>>]
    /\ reports = <<>>
    /\ DriverIdle
    /\ SourceIdle
    /\ RestIdle

\* b_cd.cpp 234-238: the call up to the start of the reduction; with a
\* negative verbose the call returns at once (lines 246-247).
BeginOn(p, cases) ==
    /\ pcP[p] = "idle"
    /\ IF verbose >= 0
       THEN \E cs \in cases, junk \in Junk :
               LET local == LocalMaxDivB[cs, junk]
               IN /\ val' = [val EXCEPT ![p] = local]
                  /\ locals' = [locals EXCEPT ![p] = Append(@, local)]
                  /\ sent' = [sent EXCEPT ![p] = IF active[p] THEN @ ELSE Append(@, local)]
                  /\ active' = [active EXCEPT ![p] = TRUE]
                  /\ pcP' = [pcP EXCEPT ![p] = "poll"]
       ELSE /\ pcP' = [pcP EXCEPT ![p] = "done"]
            /\ UNCHANGED <<val, locals, sent, active>>
    /\ UNCHANGED <<verbose, tstep, reports>>
    /\ UNCHANGED <<driverVars, sourceVars, restVars>>

Begin(p) == BeginOn(p, DiagCases)

\* b_cd.cpp 239: CheckReduce() reports incomplete and the loop goes round.
PollIncomplete(p) ==
    /\ pcP[p] = "poll"
    /\ UNCHANGED <<verbose, pcP, tstep, val, active, sent, locals, reports>>
    /\ UNCHANGED <<driverVars, sourceVars, restVars>>

\* b_cd.cpp 239-247: CheckReduce() reports complete, the loop ends, rank 0
\* prints max_divb.val, and the call returns.
PollComplete(p) ==
    /\ pcP[p] = "poll"
    /\ ReduceReady(p, ReduceRoot, Len(sent[p]))
    /\ LET v == ReduceResult(p, ReduceRoot, Len(sent[p]))
       IN /\ val' = [val EXCEPT ![p] = v]
          /\ reports' = IF MPIRank0(p)
                        THEN Append(reports, [rank |-> p, step |-> tstep[p], value |-> v])
                        ELSE reports
    /\ active' = [active EXCEPT ![p] = FALSE]
    /\ pcP' = [pcP EXCEPT ![p] = "done"]
    /\ UNCHANGED <<verbose, tstep, sent, locals>>
    /\ UNCHANGED <<driverVars, sourceVars, restVars>>

\* The rank goes on to the next timestep.
NextStep(p) ==
    /\ pcP[p] = "done"
    /\ tstep[p] < MaxDiagSteps
    /\ tstep' = [tstep EXCEPT ![p] = @ + 1]
    /\ pcP' = [pcP EXCEPT ![p] = "idle"]
    /\ UNCHANGED <<verbose, val, active, sent, locals, reports>>
    /\ UNCHANGED <<driverVars, sourceVars, restVars>>

NextDiag ==
    \E p \in Procs :
        \/ Begin(p)
        \/ PollIncomplete(p)
        \/ PollComplete(p)
        \/ NextStep(p)

SpecDiag == InitDiag /\ [][NextDiag]_vars

\* The meshes of the calls whose termination is examined: those of flat
\* geometry, of one and of two dimensions.
LiveCases == {cs \in DiagCases : cs.mesh.gkind = "flat"}

BeginLive(p) == BeginOn(p, LiveCases)

NextDiagLive ==
    \E p \in Procs :
        \/ BeginLive(p)
        \/ PollIncomplete(p)
        \/ PollComplete(p)
        \/ NextStep(p)

\* Every rank calls PostStepDiagnostics in each timestep, and a reduction that
\* can complete is seen complete by the poll of line 239 after finitely many
\* rounds.
FairDiag ==
    \A p \in Procs :
        /\ WF_vars(BeginLive(p))
        /\ WF_vars(PollComplete(p))
        /\ WF_vars(NextStep(p))

SpecDiagLive == InitDiag /\ [][NextDiagLive]_vars /\ FairDiag

\* ------------------------------------------------------------------------
\* Properties of the driver
\* ------------------------------------------------------------------------

\* Position of a task in the completion order (0: not completed).
DonePos(id) ==
    IF id \in Range(order) THEN CHOOSE n \in DOMAIN order : order[n] = id ELSE 0

\* C1: no task has started (is running, complete or failed) unless every task
\* it depends on is complete, and every completed task completed after each of
\* the tasks it depends on.
C1_PredecessorsFirst ==
    \A id \in TaskIds :
        /\ status[id] # "pending" => \A d \in Dep(id) : status[d] = "complete"
        /\ DonePos(id) > 0 => \A d \in Dep(id) : 0 < DonePos(d) /\ DonePos(d) < DonePos(id)

\* C1 witness: a polled task has been visited and reported incomplete, its
\* sibling is complete and its successor is still held back.
C1_Witness ==
    /\ phase = "exec"
    /\ status["recv_flux"] = "running"
    /\ status["send_flux"] = "complete"
    /\ status["flux_divergence"] = "pending"

\* The thirteen tasks the stage is described by, in the order of the text.
Chain ==
    <<"start_recv", "calculate_flux", "recv_flux", "flux_divergence", "source_term",
      "update_container", "send", "recv", "fill_from_bufs", "prolong_bound",
      "set_parthenon_bc", "set_custom_bc", "fill_derived">>

InChain(id) == id \in Range(Chain)

\* C2: the completed tasks among the thirteen of Chain have completed in the
\* order of Chain: the completion order, restricted to them, is a prefix of it.
C2_ChainOrder ==
    LET done == SelectSeq(order, InChain)
    IN done = SubSeq(Chain, 1, Len(done))

\* C2 witness: all thirteen have completed.
C2_Witness ==
    /\ phase = "exec"
    /\ Len(SelectSeq(order, InChain)) = Len(Chain)

\* A task is active when it is running or could be started now.
TaskActive(id) == Eligible(id)

C8_Original ==
    phase = "exec" =>
        \A id \in {"new_dt", "tag_refine"} : (id \in TaskIds) <=> (stage = nstages)

\* C8 amended: the list holds new_dt exactly on the last stage, and tag_refine
\* exactly on the last stage of an adaptive mesh.
C8_FinalStageTasks ==
    phase = "exec" =>
        /\ ("new_dt" \in TaskIds) <=> (stage = nstages)
        /\ ("tag_refine" \in TaskIds) <=> (stage = nstages /\ adaptive)

\* C8 witness: the list of the last stage of a mesh that is not adaptive.
C8_Witness ==
    /\ phase = "exec"
    /\ stage = nstages
    /\ ~adaptive
    /\ "new_dt" \in TaskIds
    /\ "tag_refine" \notin TaskIds

\* The snapshots other than base that the stages of a timestep look up.
LookedUp(nst) ==
    UNION {Range(StageGets(stg, nst)) : stg \in 1..nst} \ {"base"}

\* C9: once a stage of the timestep has been built, dUdt and every later-stage
\* snapshot has been added exactly once in this timestep, in stage 1, is held,
\* and no lookup has missed.
C9_SnapshotsOnce ==
    /\ missing = {}
    /\ phase # "threw"
    /\ stage >= 1 =>
          \A n \in LookedUp(nstages) :
              /\ n \in DOMAIN addCalls
              /\ addCalls[n] = <<1>>
              /\ n \in real_containers

\* C9 witness: the last of three stages has been built in the second timestep.
C9_Witness ==
    /\ nstages = 3
    /\ cycle = 2
    /\ stage = 3
    /\ phase = "exec"
    /\ {"dUdt", "1", "2"} \subseteq real_containers

\* C18: when no task fails and every task that can run is visited until it
\* reports complete, the driver comes to declare each stage done, and it does
\* so only with every task of the stage's list complete, send_flux and
\* clear_comm_flags included; so every task of the list completes.
C18_AllTasksComplete ==
    /\ (phase = "exec") ~> (phase \in {"build", "finished"})
    /\ [][(phase = "exec" /\ phase' \in {"build", "finished"}) =>
             \A id \in TaskIds : status[id] = "complete"]_vars

\* C18 witness: the first of several stages has been declared done, the task
\* completed last being send_flux, which no task depends on.
C18_Witness ==
    /\ phase = "build"
    /\ stage = 1
    /\ nstages > 1
    /\ Len(order) = Len(tl)
    /\ order[Len(order)] = "send_flux"
    /\ status["clear_comm_flags"] = "complete"

\* C19: in the list of every stage a task depends only on tasks added before
\* it, so the graph has no cycle; no task completes twice in a stage, and a
\* task that has completed is never visited again, whatever the tasks that
\* reported incomplete are doing.
C19_AcyclicCompleteOnce ==
    /\ \A n \in DOMAIN tl :
          \A d \in tl[n].dep : \E k \in 1..(n - 1) : tl[k].id = d
    /\ \A a, b \in DOMAIN order : a # b => order[a] # order[b]
    /\ \A id \in TaskIds : status[id] = "complete" => ~Eligible(id)
    /\ Range(order) = {id \in TaskIds : status[id] = "complete"}

\* C19 witness: on the last stage of an adaptive mesh, recv has reported
\* incomplete and waits to be visited again while the tasks before it, and
\* send_flux, have completed.
C19_Witness ==
    /\ phase = "exec"
    /\ stage = nstages
    /\ adaptive
    /\ "tag_refine" \in TaskIds
    /\ status["recv"] = "running"
    /\ status["send_flux"] = "complete"
    /\ Len(order) = 8

\* The tasks a task depends on, directly or through other tasks.
RECURSIVE Ancestors(_)
Ancestors(id) == Dep(id) \cup UNION {Ancestors(d) : d \in Dep(id)}

\* C21: once a task of a stage's list has reported failure, no task that
\* depends on it, directly or through other tasks, has run or ever runs; the
\* caller gets the failure, the stage is not declared done, and the failed
\* task is not visited again.
C21_FailureAborts ==
    /\ [](\A f \in TaskIds :
            status[f] = "failed" =>
                /\ phase = "failed"
                /\ ~Eligible(f)
                /\ \A d \in TaskIds : f \in Ancestors(d) => status[d] = "pending")
    /\ []((phase = "failed") <=> (\E f \in TaskIds : status[f] = "failed"))
    /\ [][phase = "failed" =>
             /\ phase' = "failed"
             /\ status' = status
             /\ order' = order
             /\ <<cycle, stage>>' = <<cycle, stage>>]_vars

\* C21 witness: recv_flux has failed in the second stage after send_flux,
\* which does not depend on it, completed; the tasks after recv_flux are still
\* pending and the execution has ended in failure.
C21_Witness ==
    /\ phase = "failed"
    /\ stage = 2
    /\ status["recv_flux"] = "failed"
    /\ status["send_flux"] = "complete"
    /\ status["flux_divergence"] = "pending"
    /\ status["fill_derived"] = "pending"

\* ------------------------------------------------------------------------
\* Properties of AddSource
\* ------------------------------------------------------------------------

\* A snapshot with cons.B and cons.psi_cd left out.
OtherFields(snap) ==
    [primsB |-> snap.primsB, primsPsi |-> snap.primsPsi, divB |-> snap.divB,
     fluxB |-> snap.fluxB, fluxPsi |-> snap.fluxPsi]

\* C4: after AddSource on a mesh of two or more dimensions the state snapshot
\* is what it was before the call, and so is every field of the rate-of-change
\* snapshot other than cons.B and cons.psi_cd.
C4_OnlyRateBAndPsi ==
    (pcS = "done" /\ mesh.ndim >= 2) =>
        /\ md = StateData(mesh, inp)
        /\ \A b \in Blocks(mesh) :
              OtherFields(mdudt[b]) = OtherFields(RateData(mesh, inp)[b])

\* C10: after AddSource on a mesh of fewer than two dimensions the call has
\* returned complete and both snapshots are what they were before the call.
C10_NoOpBelowTwoDims ==
    (pcS = "done" /\ mesh.ndim < 2) =>
        /\ ret = "complete"
        /\ md = StateData(mesh, inp)
        /\ mdudt = RateData(mesh, inp)

\* C10 witness: the call has returned on a one-dimensional mesh whose fluxes,
\* fields and lapse are not uniform.
C10_Witness ==
    /\ pcS = "done"
    /\ mesh.ndim = 1
    /\ mesh.gkind = "lapse"
    /\ inp.fluxB = "bump"
    /\ inp.fluxPsi = "lin"
    /\ inp.cons = "var"
    /\ ret = "complete"

\* C20: after AddSource on a mesh of two or more dimensions, at every interior
\* cell of every block, cons.psi_cd and each component of cons.B of the
\* rate-of-change snapshot hold what they held before the call plus the source
\* term computed from the state snapshot as it was before the call.
C20_Accumulates ==
    (pcS = "done" /\ mesh.ndim >= 2) =>
        LET state == StateData(mesh, inp)
            rate == RateData(mesh, inp)
        IN \E junk \in Junk :
              \A b \in Blocks(mesh) :
                  \A c \in {d \in Cells(mesh) : InInterior(mesh, d)} :
                      /\ mdudt[b].consPsi[c] =
                            Plus(rate[b].consPsi[c],
                                 SourcePsi(mesh, junk, state[b].consB[V1][c],
                                           state[b].consB[V2][c], state[b].consPsi[c],
                                           c[2], c[3]))
                      /\ \A v \in VLOOP :
                            mdudt[b].consB[v][c] =
                                Plus(rate[b].consB[v][c],
                                     SourceB(mesh, junk, state[b], v, c[1], c[2], c[3]))

\* C22: every read of a spacing array that AddSource has made used, for the
\* array of axis a, the cell's index along axis a (i for dx1v, j for dx2v, k
\* for dx3v), and an index the array has.
C22_SpacingIndexInRange ==
    (pcS = "done") =>
        \A l \in SpacingLookups(mesh) :
            /\ l.by = l.axis
            /\ l.idx \in DOMAIN DxArray(mesh, l.axis)

\* ------------------------------------------------------------------------
\* Properties of UtoP, MaxDivB and FillOutput
\* ------------------------------------------------------------------------

\* C11: after UtoP on a mesh of fewer than two dimensions every field of the
\* snapshot, prims.B and prims.psi_cd included, is what it was before the call.
C11_UtoPNoOpBelowTwoDims ==
    (kcall.op = "UtoP" /\ mesh.ndim < 2) => md = StateData(mesh, inp)

\* C12: on a mesh of fewer than two dimensions MaxDivB returns exactly 0,
\* whatever the fields and fluxes hold, and reads no entry of the fluxes.
C12_ZeroBelowTwoDims ==
    (kcall.op = "MaxDivB" /\ mesh.ndim < 2) =>
        /\ kret.value = R(0)
        /\ kret.reads = {}
        /\ md = StateData(mesh, inp)

\* C12 witness: MaxDivB has returned on a one-dimensional mesh whose fluxes
\* differ from face to face.
C12_Witness ==
    /\ kcall.op = "MaxDivB"
    /\ mesh.ndim = 1
    /\ inp.fluxB = "bump"
    /\ kret.value = R(0)

\* The cell next to c along axis a; a cell is <<k, j, i>>.
NextAlong(c, a) == [c EXCEPT ![4 - a] = @ + 1]

\* The interior cells without the last layer along each active axis.
StencilCells ==
    {c \in Cells(mesh) :
        \A a \in 1..3 :
            c[4 - a] \in IntS(mesh, a)..(IF a <= mesh.ndim THEN IntE(mesh, a) - 1
                                        ELSE IntE(mesh, a))}

\* The sum over the axes 1..a of (flux at the next face - flux at this face)
\* divided by the spacing of the axis at the cell.
RECURSIVE DivergenceEstimate(_, _, _)
DivergenceEstimate(snap, c, a) ==
    IF a = 0 THEN R(0)
    ELSE Plus(DivergenceEstimate(snap, c, a - 1),
              Over(Minus(snap.fluxB[a][NextAlong(c, a)], snap.fluxB[a][c]),
                   DxArray(mesh, a)[c[4 - a]]))

\* C13: on a mesh of two or more dimensions MaxDivB returns the largest, over
\* the blocks and over the interior cells without the last layer along each
\* active axis, of the sum over the active axes of the flux difference divided
\* by the spacing; a flux whose axis-1 difference is k times the spacing and
\* whose other differences are zero gives k.
C13_MaxOfEstimates ==
    (kcall.op = "MaxDivB" /\ mesh.ndim >= 2) =>
        LET before == StateData(mesh, inp)
            est == {DivergenceEstimate(before[b], c, mesh.ndim) :
                        b \in Blocks(mesh), c \in StencilCells}
        IN /\ kret.value \in est
           /\ \A e \in est : ~Less(kret.value, e)
           /\ inp.fluxB = "ax1" =>
                 Times(kret.value, DxArray(mesh, 1)[NGhost]) = R(AxisOneSlope)

\* C13 witness: MaxDivB has returned on a three-dimensional mesh of two
\* blocks whose estimates differ from cell to cell and from block to block.
C13_Witness ==
    /\ kcall.op = "MaxDivB"
    /\ mesh.ndim = 3
    /\ mesh.nblocks = 2
    /\ mesh.gkind = "shift"
    /\ inp.fluxB = "bump"
    /\ \E c \in StencilCells :
          Less(DivergenceEstimate(md[0], c, 3), kret.value)

\* C14: on a mesh of two or more dimensions FillOutput leaves in divB, at
\* every interior cell but the last layer along each active axis, the estimate
\* MaxDivB computes there from the same fluxes, so that on a single block the
\* largest value written is what MaxDivB returns; it changes no other field
\* and no other block. On fewer than two dimensions it changes nothing.
C14_OutputEqualsEstimate ==
    (kcall.op = "FillOutput") =>
        LET before == StateData(mesh, inp)
            b == kcall.block
        IN IF mesh.ndim < 2 THEN md = before
           ELSE /\ \A junk \in Junk :
                     /\ \A c \in StencilCells :
                           md[b].divB[c] = divb_local(mesh, junk, before[b], c[1], c[2], c[3])
                     /\ mesh.nblocks = 1 =>
                           MaxOf({md[b].divB[c] : c \in StencilCells}, RealLowest)
                               = MaxDivB(mesh, junk, before)
                /\ \A c \in Cells(mesh) \ StencilCells : md[b].divB[c] = before[b].divB[c]
                /\ [md[b] EXCEPT !.divB = before[b].divB] = before[b]
                /\ \A o \in Blocks(mesh) \ {b} : md[o] = before[o]

\* C14 witness: FillOutput has run on the only block of a three-dimensional
\* mesh and has written values that differ from cell to cell.
C14_Witness ==
    /\ kcall.op = "FillOutput"
    /\ mesh.ndim = 3
    /\ mesh.nblocks = 1
    /\ inp.fluxB = "bump"
    /\ \E c, d \in StencilCells : Less(md[0].divB[c], md[0].divB[d])

\* ------------------------------------------------------------------------
\* Properties of InitializeRest
\* ------------------------------------------------------------------------

\* The keys InitializeRest sees to.
RestKeys ==
    {"rho0", "v0", "u0", "q", "context_boundaries"}
        \cup (IF electrons THEN {"ke0"} ELSE {})

\* C15: a call of InitializeRest leaves every key already in the GRMHD table
\* with the value it had, adds exactly the keys rho0, v0, u0, q,
\* context_boundaries (and ke0 with the Electrons package) that were absent,
\* and a call after the first leaves the table as it was.
C15_AddOnlyIfAbsent ==
    [][ /\ \A k \in DOMAIN g_params :
             k \in DOMAIN g_params' /\ g_params'[k] = g_params[k]
        /\ DOMAIN g_params' = (DOMAIN g_params) \cup RestKeys
        /\ ("rho0" \notin DOMAIN g_params) =>
               g_params'["rho0"] = GetOr(pin, "rest/rho0", R(1))
        /\ ("q" \notin DOMAIN g_params) =>
               g_params'["q"] = GetOr(pin, "rest/q", R(0))
        /\ runs # <<>> => g_params' = g_params ]_vars

\* C15 witness: InitializeRest has run on two different blocks, on a table
\* that held a q other than the input file's before the first run and still
\* holds it, next to the keys the first run added.
C15_Witness ==
    /\ Len(runs) = 2
    /\ runs[1] # runs[2]
    /\ electrons
    /\ GetOr(pin, "rest/q", R(0)) = Frac(1, 2)
    /\ g_params["q"] = R(5)
    /\ g_params["rho0"] = R(1)
    /\ "ke0" \in DOMAIN g_params

\* C16: a call of InitializeRest sets tlim to dyntimes*u0/|q| when set_tlim is
\* true, q is not zero and not (q < 0 and dyntimes > 1), and leaves tlim as it
\* was in every other case; no quotient is ever formed with q = 0.
C16_TlimGuarded ==
    [][ LET set_tlim == GetOr(pin, "rest/set_tlim", FALSE)
            q == GetOr(pin, "rest/q", R(0))
            dyntimes == GetOr(pin, "rest/dyntimes", Frac(1, 2))
            u0 == GetOr(pin, "rest/u0", R(1))
            tlim == "parthenon/time/tlim"
        IN /\ IF set_tlim /\ q # R(0) /\ ~(Less(q, R(0)) /\ Less(R(1), dyntimes))
              THEN /\ pin'[tlim] = Over(Times(dyntimes, u0), IF Less(q, R(0)) THEN Neg(q) ELSE q)
                   /\ Len(quotients') = Len(quotients) + 1
              ELSE /\ pin'[tlim] = pin[tlim]
                   /\ quotients' = quotients
           /\ \A n \in DOMAIN quotients' : quotients'[n].q # R(0) ]_vars

\* C16 witness: a call has set tlim from a negative q with dyntimes <= 1, on
\* an input file whose tlim was something else.
C16_Witness ==
    /\ runs # <<>>
    /\ pin["rest/set_tlim"] = TRUE
    /\ GetOr(pin, "rest/q", R(0)) = R(-1)
    /\ pin["rest/u0"] = R(3)
    /\ pin["parthenon/time/tlim"] = Frac(3, 2)
    /\ quotients # <<>>

\* ------------------------------------------------------------------------
\* Properties of the diagnostics
\* ------------------------------------------------------------------------

\* Every rank has computed its local maximum of timestep n.
AllComputed(n) == \A q \in Procs : Len(locals[q]) >= n

\* The maximum of the local maxima of timestep n.
GlobalMax(n) == MaxOf({locals[q][n] : q \in Procs}, locals[0][n])

\* C5 as stated: once a rank has seen its reduction complete (and every rank
\* has computed its local value of that timestep), the value the rank holds
\* is the maximum of all local values.
C5_Original ==
    \A p \in Procs :
        (verbose >= 0 /\ pcP[p] = "done" /\ AllComputed(tstep[p]))
            => val[p] = GlobalMax(tstep[p])

\* C5 amended: once rank 0 has seen its reduction complete, every rank has
\* computed its local value of that timestep and rank 0 holds their maximum;
\* any other rank that has seen its reduction complete holds its own local
\* value.
C5_MaxOnRankZero ==
    \A p \in Procs :
        (verbose >= 0 /\ pcP[p] = "done") =>
            IF p = 0
            THEN AllComputed(tstep[p]) /\ val[p] = GlobalMax(tstep[p])
            ELSE val[p] = locals[p][tstep[p]]

\* C5 witness: both ranks have seen the reduction of the second timestep
\* complete; rank 0 holds a value larger than the one it computed, and in the
\* first timestep it was rank 1 that had the smaller value.
C5_Witness ==
    /\ verbose >= 0
    /\ pcP[0] = "done" /\ pcP[1] = "done"
    /\ tstep[0] = 2 /\ tstep[1] = 2
    /\ Less(locals[0][2], val[0])
    /\ val[0] = locals[1][2]
    /\ Less(locals[1][1], locals[0][1])

\* The number of timesteps whose diagnostics rank 0 has finished.
FinishedByRankZero == tstep[0] - 1 + (IF pcP[0] = "done" THEN 1 ELSE 0)

\* C6: with verbose >= 0 there is one printed line per timestep rank 0 has
\* finished and none for a timestep whose reduction it has not seen complete;
\* the n-th line is printed by rank 0, for timestep n, and carries the maximum
\* of the values all ranks computed in timestep n.
C6_OneReportOfTheMax ==
    verbose >= 0 =>
        /\ Len(reports) = FinishedByRankZero
        /\ \A n \in DOMAIN reports :
              /\ reports[n].rank = 0
              /\ reports[n].step = n
              /\ AllComputed(n)
              /\ reports[n].value = GlobalMax(n)

\* C6 witness: two timesteps have been reported, with different values, the
\* second one not rank 0's own.
C6_Witness ==
    /\ verbose >= 0
    /\ Len(reports) = 2
    /\ Less(reports[2].value, reports[1].value)
    /\ Less(locals[0][2], reports[2].value)
    /\ reports[1].value = locals[0][1]

\* C17: with verbose >= 0 on every rank, every rank calling in each timestep
\* and a reduction that completes once every rank has started it, a rank in
\* the poll loop of line 239 leaves it and returns, and every rank returns
\* from the call of every timestep.
C17_PollLoopExits ==
    /\ \A p \in Procs : (pcP[p] = "poll") ~> (pcP[p] = "done")
    /\ <>(\A p \in Procs : tstep[p] = MaxDiagSteps /\ pcP[p] = "done")

\* C17 witness: with verbose >= 0 every rank has returned from the call of
\* the last timestep, and rank 0 has printed once per timestep.
C17_Witness ==
    /\ verbose >= 0
    /\ \A p \in Procs : tstep[p] = MaxDiagSteps /\ pcP[p] = "done"
    /\ Len(reports) = MaxDiagSteps
    /\ \A p \in Procs : Len(sent[p]) = MaxDiagSteps


====
